---- MODULE Spec2Model ----
(***************************************************************************)
(* NonMessenger message-pool server (src/server/server.js).               *)
(*                                                                         *)
(* The server is one Node.js process: every handler body runs to          *)
(* completion on the event loop, so one action below is one handler.      *)
(* What a handler answers and writes to sockets is held in out until it   *)
(* has left the process (Flush); one answer is in flight at a time.       *)
(* The handlers below are what runs once a request has passed the rate    *)
(* limiter; SpecLimiter puts the limiter in front of them, SpecPeers      *)
(* follows the replication requests of a publish to a peer broker,        *)
(* SpecReaper runs the session sweep and SpecShutdown the SIGTERM         *)
(* handler.                                                               *)
(* JavaScript Maps keep insertion order (re-setting an existing key keeps *)
(* its position), so messagePool and userSessions are sequences of        *)
(* entries; serverNodes is a Set of freshly built objects, which never    *)
(* compare equal, so it is a sequence too.                                *)
(***************************************************************************)
EXTENDS Integers, Sequences, FiniteSets, TLC

(* ------------------------------ bounds -------------------------------- *)
MaxTime == 1        \* the clock runs over 0..MaxTime (milliseconds)
MaxNodes == 2       \* entries the node registry may grow to

MaxOver == 1        \* requests one source makes beyond the limiter's points
MaxOther == 1       \* requests per window of the second source

(* ------------------------- program constants -------------------------- *)
DefaultTtl == 86400000
MaxAttempts == 3
Points == 100       \* rateLimiter points
Duration == 60      \* rateLimiter duration, in seconds

(* --------------------------- input domains ---------------------------- *)
Missing == ""                       \* an absent / falsy request field
Recipients == {"R1", "R2"}
MessageIds == {"m1", "m2"}
Payloads == {"X"}
Channels == {1, 2}                  \* WebSocket objects (wss.clients slots)
CallerTtls == {0}                   \* ttl values a caller supplies
NodeUrls == {"u1"}
PublicKeys == {"k1"}
Sources == {"a1", "a2"}             \* req.ip values

VARIABLES
    messagePool,    \* Map messageId -> message, in insertion order
    userSessions,   \* Map sessionId -> {ws, contactCode, lastSeen, status}
    serverNodes,    \* Set of {nodeUrl, publicKey, lastSeen} objects
    clients,        \* wss.clients: per channel its readiness and ws.sessionId
    now,            \* Date.now()
    out,            \* the answer and frames of the handler that just ran
    insertOrder,    \* ghost: pooled ids in the order they were first inserted
    rateLimiter,    \* RateLimiterMemory storage: per source its window record
    settled,        \* outcomes of the replication requests of the publish in out
    peerPool,       \* messagePool of the peer broker the node registry names
    phase,          \* process life cycle: running, closing (SIGTERM seen), exited
    asked,          \* ghost: per source, the start of its current 60 s window
                    \* and the requests it has made in it
    lastInbound     \* ghost (SpecReaper): per socket, when its last frame came in

vars == <<messagePool, userSessions, serverNodes, clients, now, out,
          insertOrder, rateLimiter, settled, peerPool, phase, asked,
          lastInbound>>

(* ------------------------- sequence helpers --------------------------- *)
RemoveAt(s, i) ==
    [k \in 1..(Len(s) - 1) |-> IF k < i THEN s[k] ELSE s[k + 1]]

Range(s) == {s[k] : k \in 1..Len(s)}

(* --------------------- Map operations on the pool --------------------- *)
PoolIndex(pool, id) ==
    IF \E k \in 1..Len(pool) : pool[k].id = id
    THEN CHOOSE k \in 1..Len(pool) : pool[k].id = id
    ELSE 0

PoolHas(pool, id) == PoolIndex(pool, id) # 0

\* A set that stores nothing.
PoolSetNothing(pool, message) == pool

\* A set that moves a key it overwrites to the end.
PoolSetAppend(pool, message) ==
    IF PoolHas(pool, message.id)
    THEN Append(RemoveAt(pool, PoolIndex(pool, message.id)), message)
    ELSE Append(pool, message)

\* A set that keeps the value a key already has.
PoolSetKeepFirst(pool, message) ==
    IF PoolHas(pool, message.id) THEN pool ELSE Append(pool, message)

\* Map.prototype.set: a new key goes last, an existing key keeps its place
\* and takes the new value.
PoolSet(pool, message) ==
    IF PoolHas(pool, message.id)
    THEN [pool EXCEPT ![PoolIndex(pool, message.id)] = message]
    ELSE Append(pool, message)

\* A delete that removes nothing.
PoolDeleteNothing(pool, id) == pool

\* A delete that removes the oldest entry instead of the one asked for.
PoolDeleteFirst(pool, id) ==
    IF PoolHas(pool, id) THEN Tail(pool) ELSE pool

\* Map.prototype.delete
PoolDelete(pool, id) ==
    IF PoolHas(pool, id) THEN RemoveAt(pool, PoolIndex(pool, id)) ELSE pool

(* ------------------ Map operations on the sessions -------------------- *)
SessIndex(sess, sid) ==
    IF \E k \in 1..Len(sess) : sess[k].sessionId = sid
    THEN CHOOSE k \in 1..Len(sess) : sess[k].sessionId = sid
    ELSE 0

SessSet(sess, entry) ==
    IF SessIndex(sess, entry.sessionId) # 0
    THEN [sess EXCEPT ![SessIndex(sess, entry.sessionId)] = entry]
    ELSE Append(sess, entry)

SessDelete(sess, sid) ==
    IF SessIndex(sess, sid) # 0 THEN RemoveAt(sess, SessIndex(sess, sid))
    ELSE sess

(* ------------------------------ frames -------------------------------- *)
IsFrame(f, type) == "type" \in DOMAIN f /\ f.type = type

NewMessageFrame(message) ==
    [type |-> "new_message", message |-> message.encryptedMessage,
     messageId |-> message.id, timestamp |-> message.timestamp]

\* ws.send raises when the transport under the socket has gone and the
\* 'close' event has not been handled yet.
WsSendThrows(ws) == clients[ws].state = "broken"

Idle == [op |-> "idle", frames |-> <<>>]

\* A key the limiter's storage does not hold.
NoRecord == [consumedPoints |-> 0, expiresAt |-> -1]

(* ------------------------------- Init --------------------------------- *)
Init ==
    /\ messagePool = <<>>
    /\ userSessions = <<>>
    /\ serverNodes = <<>>
    /\ clients = [c \in Channels |-> [state |-> "none", sessionId |-> Missing]]
    /\ now = 0
    /\ out = Idle
    /\ insertOrder = <<>>
    /\ rateLimiter = [s \in Sources |-> NoRecord]
    /\ settled = <<>>
    /\ peerPool = <<>>
    /\ phase = "running"
    /\ asked = [s \in Sources |-> [since |-> -1, count |-> 0]]
    /\ lastInbound = [c \in Channels |-> 0]

(* ------------------------- ghost bookkeeping -------------------------- *)
\* Identifiers in order of first insertion, restricted to those still pooled.
OrderAfter(order, p) == SelectSeq(order, LAMBDA i : PoolHas(p, i))

(* ------------------------- attemptDirectDelivery ---------------------- *)
\* A walk that writes to the first session whose send succeeds, whatever
\* recipient it is bound to.
RECURSIVE DeliverFromAny(_, _, _)
DeliverFromAny(sess, i, message) ==
    IF i > Len(sess)
    THEN [delivered |-> FALSE, sessions |-> sess, frames |-> <<>>]
    ELSE IF WsSendThrows(sess[i].ws)
         THEN DeliverFromAny(RemoveAt(sess, i), i, message)
         ELSE [delivered |-> TRUE, sessions |-> sess,
               frames |-> <<[to |-> sess[i].ws,
                             frame |-> NewMessageFrame(message)]>>]

\* Walks userSessions in Map order from position i. A matching session whose
\* send raises is deleted and the walk goes on; the first send that succeeds
\* ends the walk with true.
RECURSIVE DeliverFrom(_, _, _)
DeliverFrom(sess, i, message) ==
    IF i > Len(sess)
    THEN [delivered |-> FALSE, sessions |-> sess, frames |-> <<>>]
    ELSE IF sess[i].contactCode = message.recipientContactCode
         THEN IF WsSendThrows(sess[i].ws)
              THEN DeliverFrom(RemoveAt(sess, i), i, message)
              ELSE [delivered |-> TRUE, sessions |-> sess,
                    frames |-> <<[to |-> sess[i].ws,
                                  frame |-> NewMessageFrame(message)]>>]
         ELSE DeliverFrom(sess, i + 1, message)

attemptDirectDelivery(message) == DeliverFrom(userSessions, 1, message)

(* --------------------------- replicateToNodes ------------------------- *)
\* A replication that is skipped for an envelope that was pushed.
replicateToNodesUndelivered(message) ==
    IF attemptDirectDelivery(message).delivered
    THEN <<>>
    ELSE [k \in 1..Len(serverNodes) |->
             [url |-> serverNodes[k].nodeUrl, path |-> "/api/replicate",
              body |-> message]]

\* One POST <nodeUrl>/api/replicate per registered node; the outcomes are
\* swallowed.
replicateToNodes(message) ==
    [k \in 1..Len(serverNodes) |->
        [url |-> serverNodes[k].nodeUrl, path |-> "/api/replicate",
         body |-> message]]

(* ------------------------------ requests ------------------------------ *)
\* A check that forgets messageId.
PublishRejectsNoId(b) ==
    \/ b.recipientContactCode = Missing
    \/ b.encryptedMessage = Missing

\* !recipientContactCode || !encryptedMessage || !messageId
PublishRejects(b) ==
    \/ b.recipientContactCode = Missing
    \/ b.encryptedMessage = Missing
    \/ b.messageId = Missing

\* Request bodies: every complete body, and bodies with any non-empty set
\* of the three required fields missing. hasTtl is whether the body carries
\* a ttl at all (the default applies only when it does not).
CompleteBodies ==
    [recipientContactCode : Recipients, encryptedMessage : Payloads,
     messageId : MessageIds, hasTtl : {TRUE}, ttl : CallerTtls]
    \cup
    [recipientContactCode : Recipients, encryptedMessage : Payloads,
     messageId : MessageIds, hasTtl : {FALSE}, ttl : {0}]

PublishBodies ==
    CompleteBodies
    \cup
    [recipientContactCode : {"R1", Missing}, encryptedMessage : {"X", Missing},
     messageId : {"m1", Missing}, hasTtl : {FALSE}, ttl : {0}]

MessageOf(b) ==
    [id |-> b.messageId,
     recipientContactCode |-> b.recipientContactCode,
     encryptedMessage |-> b.encryptedMessage,
     timestamp |-> now,
     ttl |-> IF b.hasTtl THEN b.ttl ELSE DefaultTtl,
     attempts |-> 0,
     maxAttempts |-> MaxAttempts]

(* ---------------------------- handleMessage --------------------------- *)
handleMessageReject(b) ==
    /\ out = Idle
    /\ PublishRejects(b)
    /\ out' = [op |-> "publish", req |-> b, status |-> 400,
               body |-> [error |-> "Missing required fields"],
               frames |-> <<>>, replicated |-> <<>>]
    /\ UNCHANGED <<messagePool, userSessions, serverNodes, clients, now,
                   insertOrder>>

handleMessageAccept(b) ==
    /\ out = Idle
    /\ ~PublishRejects(b)
    /\ LET message == MessageOf(b)
           id == b.messageId
           pool1 == PoolSet(messagePool, message)
           d == attemptDirectDelivery(message)
           pool2 == IF d.delivered THEN PoolDelete(pool1, id) ELSE pool1
           order1 == IF \E k \in 1..Len(insertOrder) : insertOrder[k] = id
                     THEN insertOrder ELSE Append(insertOrder, id)
       IN /\ messagePool' = pool2
          /\ userSessions' = d.sessions
          /\ out' = [op |-> "publish", req |-> b, status |-> 200,
                     body |-> [success |-> TRUE, messageId |-> id,
                               delivered |-> d.delivered,
                               pooled |-> ~d.delivered],
                     frames |-> d.frames,
                     replicated |-> replicateToNodes(message)]
          /\ insertOrder' = OrderAfter(order1, pool2)
    /\ UNCHANGED <<serverNodes, clients, now>>

handleMessage(b) == handleMessageReject(b) \/ handleMessageAccept(b)

(* ----------------------------- getMessages ---------------------------- *)
\* A scan that stops at the first match.
PulledOfFirst(pool, contactCode) ==
    LET all == SelectSeq(pool, LAMBDA m : m.recipientContactCode = contactCode)
    IN IF all = <<>> THEN <<>> ELSE <<all[1]>>

\* The entries the loop over the Map meets with a matching recipient.
PulledOf(pool, contactCode) ==
    SelectSeq(pool, LAMBDA m : m.recipientContactCode = contactCode)

\* A loop that empties the pool.
KeptOfEmpty(pool, contactCode) == <<>>

\* A loop that answers without deleting.
KeptOfNone(pool, contactCode) == pool

\* What stays after the loop deleted every entry it pushed to the answer.
KeptOf(pool, contactCode) ==
    SelectSeq(pool, LAMBDA m : m.recipientContactCode # contactCode)

Answered(m) ==
    [id |-> m.id, encryptedMessage |-> m.encryptedMessage,
     timestamp |-> m.timestamp]

\* The messages array getMessages answers when the pool is pool.
PullAnswer(pool, contactCode) ==
    LET taken == PulledOf(pool, contactCode)
    IN [k \in 1..Len(taken) |-> Answered(taken[k])]

getMessages(contactCode) ==
    /\ out = Idle
    /\ LET pool2 == KeptOf(messagePool, contactCode)
       IN /\ messagePool' = pool2
          /\ out' = [op |-> "pull", contactCode |-> contactCode, status |-> 200,
                     body |-> [messages |-> PullAnswer(messagePool, contactCode)],
                     frames |-> <<>>]
          /\ insertOrder' = OrderAfter(insertOrder, pool2)
          /\ UNCHANGED <<userSessions, serverNodes, clients, now>>

(* ---------------------------- deleteMessage --------------------------- *)
deleteMessage(messageId) ==
    /\ out = Idle
    /\ LET deleted == PoolHas(messagePool, messageId)
           pool2 == PoolDelete(messagePool, messageId)
       IN /\ messagePool' = pool2
          /\ out' = [op |-> "delete", messageId |-> messageId, status |-> 200,
                     body |-> [success |-> deleted], frames |-> <<>>]
          /\ insertOrder' = OrderAfter(insertOrder, pool2)
          /\ UNCHANGED <<userSessions, serverNodes, clients, now>>

(* ----------------------- cleanupExpiredMessages ----------------------- *)
\* A test that measures every entry against the default ttl.
ExpiredDefault(m, t) == t - m.timestamp > DefaultTtl

Expired(m, t) == t - m.timestamp > m.ttl

cleanupExpiredMessages ==
    /\ out = Idle
    /\ LET gone == SelectSeq(messagePool, LAMBDA m : Expired(m, now))
           pool2 == SelectSeq(messagePool, LAMBDA m : ~Expired(m, now))
           ids == [k \in 1..Len(gone) |-> gone[k].id]
       IN /\ messagePool' = pool2
          /\ out' = [op |-> "sweep", cleaned |-> Len(gone), ids |-> ids,
                     frames |-> <<>>]
          /\ insertOrder' = OrderAfter(insertOrder, pool2)
          /\ UNCHANGED <<userSessions, serverNodes, clients, now>>

(* -------------------------------- clock ------------------------------- *)
Tick ==
    /\ out = Idle
    /\ now < MaxTime
    /\ now' = now + 1
    /\ UNCHANGED <<messagePool, userSessions, serverNodes, clients, out,
                   insertOrder>>

(* --------------------------- WebSocket server ------------------------- *)
\* A generator that hands every connection the same identifier.
generateSessionIdSame(c) == "s1"

\* crypto.randomBytes(16) as hex: 128 random bits per connection, taken here
\* never to repeat, so the c-th socket gets an identifier of its own.
generateSessionId(c) == IF c = 1 THEN "s1" ELSE "s2"

\* wss.on('connection'): the socket gets its sessionId; nothing is put into
\* userSessions yet.
Connection(c) ==
    /\ out = Idle
    /\ clients[c].state = "none"
    /\ clients' = [clients EXCEPT
                      ![c] = [state |-> "open",
                              sessionId |-> generateSessionId(c)]]
    /\ UNCHANGED <<messagePool, userSessions, serverNodes, now, out,
                   insertOrder>>

\* The transport under an open socket goes away; 'close' comes later.
TransportLost(c) ==
    /\ out = Idle
    /\ clients[c].state = "open"
    /\ clients' = [clients EXCEPT ![c].state = "broken"]
    /\ UNCHANGED <<messagePool, userSessions, serverNodes, now, out,
                   insertOrder>>

\* A close handler that leaves the registry alone.
OnCloseKeep(c) ==
    /\ out = Idle
    /\ clients[c].state \in {"open", "broken", "closing"}
    /\ clients' = [clients EXCEPT ![c].state = "closed"]
    /\ UNCHANGED <<messagePool, userSessions, serverNodes, now, out,
                   insertOrder>>

\* ws.on('close'): userSessions.delete(sessionId)
OnClose(c) ==
    /\ out = Idle
    /\ clients[c].state \in {"open", "broken", "closing"}
    /\ clients' = [clients EXCEPT ![c].state = "closed"]
    /\ userSessions' = SessDelete(userSessions, clients[c].sessionId)
    /\ UNCHANGED <<messagePool, serverNodes, now, out, insertOrder>>

WsOut(c, type, frames) ==
    [op |-> "ws_message", ws |-> c, type |-> type, frames |-> frames]

\* A registration that hands the envelopes pooled for the contact code to
\* the socket and takes them out of the pool.
registerUserDrain(c, contactCode) ==
    /\ out = Idle
    /\ clients[c].state = "open"
    /\ IF contactCode = Missing
       THEN /\ out' = WsOut(c, "register_user",
                        <<[to |-> c,
                           frame |-> [error |-> "Invalid contact code"]]>>)
            /\ UNCHANGED <<userSessions, messagePool, insertOrder>>
       ELSE LET taken == PulledOf(messagePool, contactCode)
                pool2 == KeptOf(messagePool, contactCode)
            IN /\ userSessions' =
                      SessSet(userSessions,
                              [sessionId |-> clients[c].sessionId, ws |-> c,
                               contactCode |-> contactCode, lastSeen |-> now,
                               status |-> "online"])
               /\ out' = WsOut(c, "register_user",
                           <<[to |-> c,
                              frame |-> [type |-> "registration_success",
                                         sessionId |-> clients[c].sessionId]]>>
                           \o [k \in 1..Len(taken) |->
                                  [to |-> c,
                                   frame |-> NewMessageFrame(taken[k])]])
               /\ messagePool' = pool2
               /\ insertOrder' = OrderAfter(insertOrder, pool2)
    /\ UNCHANGED <<serverNodes, clients, now>>

\* registerUser(ws, contactCode)
registerUser(c, contactCode) ==
    /\ out = Idle
    /\ clients[c].state = "open"
    /\ IF contactCode = Missing
       THEN /\ out' = WsOut(c, "register_user",
                        <<[to |-> c,
                           frame |-> [error |-> "Invalid contact code"]]>>)
            /\ UNCHANGED userSessions
       ELSE /\ userSessions' =
                  SessSet(userSessions,
                          [sessionId |-> clients[c].sessionId, ws |-> c,
                           contactCode |-> contactCode, lastSeen |-> now,
                           status |-> "online"])
            /\ out' = WsOut(c, "register_user",
                        <<[to |-> c,
                           frame |-> [type |-> "registration_success",
                                      sessionId |-> clients[c].sessionId]]>>)
    /\ UNCHANGED <<messagePool, serverNodes, clients, now,
                   insertOrder>>

\* A forward that stops at the first session it has written to.
RECURSIVE ForwardFromFirst(_, _, _)
ForwardFromFirst(sess, i, message) ==
    IF i > Len(sess)
    THEN [sessions |-> sess, frames |-> <<>>]
    ELSE IF sess[i].contactCode = message.recipientContactCode
         THEN IF WsSendThrows(sess[i].ws)
              THEN ForwardFromFirst(RemoveAt(sess, i), i, message)
              ELSE [sessions |-> sess,
                    frames |-> <<[to |-> sess[i].ws, frame |-> message]>>]
         ELSE ForwardFromFirst(sess, i + 1, message)

\* forwardRealTimeMessage(message): every matching session is written to;
\* one whose send raises is deleted.
RECURSIVE ForwardFrom(_, _, _)
ForwardFrom(sess, i, message) ==
    IF i > Len(sess)
    THEN [sessions |-> sess, frames |-> <<>>]
    ELSE IF sess[i].contactCode = message.recipientContactCode
         THEN IF WsSendThrows(sess[i].ws)
              THEN ForwardFrom(RemoveAt(sess, i), i, message)
              ELSE LET rest == ForwardFrom(sess, i + 1, message)
                   IN [sessions |-> rest.sessions,
                       frames |-> <<[to |-> sess[i].ws, frame |-> message]>>
                                  \o rest.frames]
         ELSE ForwardFrom(sess, i + 1, message)

forwardRealTimeMessage(c, recipient) ==
    /\ out = Idle
    /\ clients[c].state = "open"
    /\ LET message == [type |-> "real_time_message",
                       recipientContactCode |-> recipient]
           f == ForwardFrom(userSessions, 1, message)
       IN /\ userSessions' = f.sessions
          /\ out' = [op |-> "ws_message", ws |-> c,
                     type |-> "real_time_message", req |-> message,
                     frames |-> f.frames]
    /\ UNCHANGED <<messagePool, serverNodes, clients, now,
                   insertOrder>>

\* A broadcast that goes through the registry: only sockets with a
\* registered session are written to.
RECURSIVE BroadcastToBound(_, _)
BroadcastToBound(cs, message) ==
    IF cs = {} THEN <<>>
    ELSE LET c == CHOOSE x \in cs : \A y \in cs : x <= y
         IN (IF /\ clients[c].state = "open"
                /\ \E k \in 1..Len(userSessions) : userSessions[k].ws = c
             THEN <<[to |-> c, frame |-> message]>> ELSE <<>>)
            \o BroadcastToBound(cs \ {c}, message)

\* broadcastStatusUpdate(statusMessage): every client whose readyState is
\* OPEN is sent the frame; nothing is removed.
RECURSIVE BroadcastTo(_, _)
BroadcastTo(cs, message) ==
    IF cs = {} THEN <<>>
    ELSE LET c == CHOOSE x \in cs : \A y \in cs : x <= y
         IN (IF clients[c].state = "open"
             THEN <<[to |-> c, frame |-> message]>> ELSE <<>>)
            \o BroadcastTo(cs \ {c}, message)

broadcastStatusUpdate(c, status) ==
    /\ out = Idle
    /\ clients[c].state = "open"
    /\ out' = WsOut(c, "status_update",
                    BroadcastTo(Channels,
                                [type |-> "status_update", status |-> status]))
    /\ UNCHANGED <<messagePool, userSessions, serverNodes, clients, now,
                   insertOrder>>

\* default: of the switch, and the catch of JSON.parse
BadFrame(c, why) ==
    /\ out = Idle
    /\ clients[c].state = "open"
    /\ out' = WsOut(c, "other", <<[to |-> c, frame |-> [error |-> why]]>>)
    /\ UNCHANGED <<messagePool, userSessions, serverNodes, clients, now,
                   insertOrder>>

handleWebSocketMessage(c) ==
    \/ \E contactCode \in Recipients \cup {Missing} :
           registerUser(c, contactCode)
    \/ \E recipient \in Recipients : forwardRealTimeMessage(c, recipient)
    \/ broadcastStatusUpdate(c, "away")
    \/ \E why \in {"Unknown message type", "Invalid message format"} :
           BadFrame(c, why)

(* ---------------------------- node registry --------------------------- *)
NodeBodies == [nodeUrl : NodeUrls \cup {Missing},
               publicKey : PublicKeys \cup {Missing}]

NodeRejects(b) == b.nodeUrl = Missing \/ b.publicKey = Missing

registerNode(b) ==
    /\ out = Idle
    /\ IF NodeRejects(b)
       THEN /\ out' = [op |-> "register_node", req |-> b, status |-> 400,
                       body |-> [error |-> "Missing node URL or public key"],
                       frames |-> <<>>]
            /\ UNCHANGED serverNodes
       ELSE /\ Len(serverNodes) < MaxNodes
            /\ serverNodes' =
                  Append(serverNodes,
                         [nodeUrl |-> b.nodeUrl, publicKey |-> b.publicKey,
                          lastSeen |-> now])
            /\ out' = [op |-> "register_node", req |-> b, status |-> 200,
                       body |-> [success |-> TRUE,
                                 registeredNodes |-> Len(serverNodes) + 1],
                       frames |-> <<>>]
    /\ UNCHANGED <<messagePool, userSessions, clients, now,
                   insertOrder>>

getNodes ==
    /\ out = Idle
    /\ out' = [op |-> "nodes", status |-> 200,
               body |-> [nodes |->
                   [k \in 1..Len(serverNodes) |->
                       [nodeUrl |-> serverNodes[k].nodeUrl,
                        lastSeen |-> serverNodes[k].lastSeen]]],
               frames |-> <<>>]
    /\ UNCHANGED <<messagePool, userSessions, serverNodes, clients, now,
                   insertOrder>>

health ==
    /\ out = Idle
    /\ out' = [op |-> "health", status |-> 200,
               body |-> [status |-> "healthy", timestamp |-> now,
                         version |-> "1.0.0",
                         messagePoolSize |-> Len(messagePool),
                         activeSessions |-> Len(userSessions),
                         connectedNodes |-> Len(serverNodes)],
               frames |-> <<>>]
    /\ UNCHANGED <<messagePool, userSessions, serverNodes, clients, now,
                   insertOrder>>

(* ------------------------------- answers ------------------------------ *)
\* res.json(...) and the frames handed to ws.send have left the process.
Flush ==
    /\ out # Idle
    /\ out' = Idle
    /\ UNCHANGED <<messagePool, userSessions, serverNodes, clients, now,
                   insertOrder>>

\* A step of the broker proper: the limiter's storage, the peer and the
\* process life cycle are not touched by it.
Broker(A) ==
    A /\ UNCHANGED <<rateLimiter, settled, peerPool, phase, asked, lastInbound>>

(* ---------------------------- rate limiter ---------------------------- *)
WindowMs == Duration * 1000

\* RateLimiterMemory storage: a record counts until its expiresAt; the first
\* consume without a live record opens a window of Duration seconds.
Live(rec, t) == rec # NoRecord /\ t < rec.expiresAt

\* rateLimiter.consume(req.ip): one point more in the record of the key.
Consume(rec, t) ==
    IF Live(rec, t)
    THEN [rec EXCEPT !.consumedPoints = @ + 1]
    ELSE [consumedPoints |-> 1, expiresAt |-> t + WindowMs]

\* A limiter that turns away the request that takes the last point.
RejectsLast(rec) == rec.consumedPoints >= Points

\* consume rejects when the points consumed exceed the points granted.
Rejects(rec) == rec.consumedPoints > Points

\* The requests a source makes: the window opened by its first request
\* lasts WindowMs; a request after it opens the next one.
AskedAfter(a, t) ==
    IF a.since >= 0 /\ t < a.since + WindowMs
    THEN [a EXCEPT !.count = @ + 1]
    ELSE [since |-> t, count |-> 1]

\* What one source may ask within a window in this model.
AskLimit(src) == IF src = "a1" THEN Points + MaxOver ELSE MaxOther

TooManyRequests(src) ==
    [op |-> "rate_limited", src |-> src, status |-> 429,
     body |-> [error |-> "Too many requests"], frames |-> <<>>]

\* A middleware that answers 429 and goes on to next() all the same.
rateLimitMiddlewareThenNext(src, A) ==
    /\ AskedAfter(asked[src], now).count <= AskLimit(src)
    /\ rateLimiter' = [rateLimiter EXCEPT ![src] = Consume(@, now)]
    /\ asked' = [asked EXCEPT ![src] = AskedAfter(@, now)]
    /\ A
    /\ UNCHANGED <<settled, peerPool, phase, lastInbound>>

\* A middleware that keeps one record for all sources.
rateLimitMiddlewareShared(src, A) ==
    /\ AskedAfter(asked[src], now).count <= AskLimit(src)
    /\ rateLimiter' = [rateLimiter EXCEPT !["a1"] = Consume(@, now)]
    /\ asked' = [asked EXCEPT ![src] = AskedAfter(@, now)]
    /\ IF Rejects(Consume(rateLimiter["a1"], now))
       THEN /\ out = Idle
            /\ out' = TooManyRequests(src)
            /\ UNCHANGED <<messagePool, userSessions, serverNodes, clients,
                           now, insertOrder>>
       ELSE A
    /\ UNCHANGED <<settled, peerPool, phase, lastInbound>>

\* rateLimitMiddleware(req, res, next) in front of the handler A.
rateLimitMiddleware(src, A) ==
    /\ AskedAfter(asked[src], now).count <= AskLimit(src)
    /\ rateLimiter' = [rateLimiter EXCEPT ![src] = Consume(@, now)]
    /\ asked' = [asked EXCEPT ![src] = AskedAfter(@, now)]
    /\ IF Rejects(Consume(rateLimiter[src], now))
       THEN /\ out = Idle
            /\ out' = TooManyRequests(src)
            /\ UNCHANGED <<messagePool, userSessions, serverNodes, clients,
                           now, insertOrder>>
       ELSE A
    /\ UNCHANGED <<settled, peerPool, phase, lastInbound>>

\* Date.now() between two handlers: the clock is read at these instants.
Elapse(instants) ==
    /\ out = Idle
    /\ \E t \in instants : t > now /\ now' = t
    /\ UNCHANGED <<messagePool, userSessions, serverNodes, clients, out,
                   insertOrder, rateLimiter, settled, peerPool, phase, asked,
                   lastInbound>>

LimiterInstants == {WindowMs - 1, WindowMs}
LimiterBodies ==
    {b \in PublishBodies :
        /\ b.recipientContactCode \in {"R1", Missing}
        /\ b.encryptedMessage = "X"
        /\ b.messageId = "m1"
        /\ ~b.hasTtl}

\* SpecLimiter: HTTP requests from their sources through the limiter.
NextLimiter ==
    \/ \E src \in Sources : rateLimitMiddleware(src, health)
    \/ \E src \in Sources, b \in LimiterBodies :
           rateLimitMiddleware(src, handleMessage(b))
    \/ \E src \in Sources : rateLimitMiddleware(src, getMessages("R1"))
    \/ \E src \in Sources, b \in NodeBodies :
           rateLimitMiddleware(src, registerNode(b))
    \/ Elapse(LimiterInstants)
    \/ Broker(Flush)

SpecLimiter == Init /\ [][NextLimiter]_vars

(* ----------------------- cleanupInactiveSessions ---------------------- *)
SessionTimeout == 5 * 60 * 1000

\* A test that takes the timeout for seconds.
InactiveInSeconds(session, t) == t - session.lastSeen > SessionTimeout * 1000

Inactive(session, t) == t - session.lastSeen > SessionTimeout

\* session.ws.close(): an open socket starts its closing handshake; 'close'
\* is emitted later.
RECURSIVE CloseAll(_, _)
CloseAll(cl, gone) ==
    IF gone = <<>> THEN cl
    ELSE CloseAll([cl EXCEPT ![Head(gone).ws].state =
                       IF @ = "open" THEN "closing" ELSE @],
                  Tail(gone))

cleanupInactiveSessions ==
    /\ out = Idle
    /\ LET gone == SelectSeq(userSessions, LAMBDA e : Inactive(e, now))
       IN /\ userSessions' =
                 SelectSeq(userSessions, LAMBDA e : ~Inactive(e, now))
          /\ clients' = CloseAll(clients, gone)
          /\ out' = [op |-> "session_sweep", cleaned |-> Len(gone),
                     closed |-> [k \in 1..Len(gone) |-> gone[k].ws],
                     frames |-> <<>>]
    /\ UNCHANGED <<messagePool, serverNodes, now, insertOrder>>

\* ws.on('message'): a frame comes in on socket c and is handled.
Inbound(c, A) ==
    /\ A
    /\ lastInbound' = [lastInbound EXCEPT ![c] = now]
    /\ UNCHANGED <<rateLimiter, settled, peerPool, phase, asked>>

ReaperInstants == {SessionTimeout, SessionTimeout + 1}
ReaperBodies ==
    {b \in CompleteBodies : b.messageId = "m1" /\ ~b.hasTtl}

\* SpecReaper: sockets, their frames and the session sweep over a clock
\* that reaches past the session timeout.
NextReaper ==
    \/ \E c \in Channels : Broker(Connection(c))
    \/ \E c \in Channels : Inbound(c, handleWebSocketMessage(c))
    \/ \E c \in Channels : Broker(TransportLost(c))
    \/ \E c \in Channels : Broker(OnClose(c))
    \/ Broker(cleanupInactiveSessions)
    \/ \E b \in ReaperBodies : Broker(handleMessage(b))
    \/ Elapse(ReaperInstants)
    \/ Broker(Flush)

SpecReaper == Init /\ [][NextReaper]_vars

(* ------------------------------ the peer ------------------------------ *)
\* The routes setupRoutes installs; a peer broker runs this same program.
Routes ==
    {[method |-> "GET", path |-> "/health"],
     [method |-> "POST", path |-> "/api/message"],
     [method |-> "GET", path |-> "/api/messages/:contactCode"],
     [method |-> "DELETE", path |-> "/api/message/:messageId"],
     [method |-> "POST", path |-> "/api/register-node"],
     [method |-> "GET", path |-> "/api/nodes"]}

\* Whether a route of the peer matches the POST that fetch sends.
Routed(req) == [method |-> "POST", path |-> req.path] \in Routes

\* The replication requests of the answer in out.
Replicated(o) == IF "replicated" \in DOMAIN o THEN o.replicated ELSE <<>>

\* An answer that reports a failed replication to the publisher.
AnswerFailedPeer(o, outcomes) ==
    IF \E k \in 1..Len(outcomes) : ~outcomes[k].ok
    THEN [o EXCEPT !.status = 500,
                   !.body = [error |-> "Internal server error"]]
    ELSE o

\* What res.json sends once Promise.allSettled has resolved: each request's
\* outcome was turned into true or false inside replicateToNodes and none
\* of them is looked at.
Answer(o, outcomes) == o

\* The peer named by the node registry receives the next replication
\* request. It runs this program: a request none of its routes matches is
\* answered 404 by Express and reaches no handler; one that a POST route
\* matches reaches handleMessage or registerNode, which answer 400 to a
\* body that has neither messageId nor nodeUrl (the body is the message
\* record, whose identifier is in id). Either way the peer's pool is not
\* written.
PeerAnswers ==
    /\ Len(settled) < Len(Replicated(out))
    /\ LET req == Replicated(out)[Len(settled) + 1]
           outcome == [ok |-> FALSE, reached |-> TRUE,
                       status |-> IF Routed(req) THEN "400" ELSE "404"]
       IN /\ settled' = Append(settled, outcome)
          /\ out' = Answer(out, settled')
    /\ UNCHANGED <<messagePool, userSessions, serverNodes, clients, now,
                   insertOrder, rateLimiter, peerPool, phase, asked,
                   lastInbound>>

\* fetch rejects (peer unreachable, or no answer within the 5 s timeout) or
\* resolves with an error status.
FetchFails(why) ==
    /\ Len(settled) < Len(Replicated(out))
    /\ settled' = Append(settled, [ok |-> FALSE, reached |-> FALSE,
                                    status |-> why])
    /\ out' = Answer(out, settled')
    /\ UNCHANGED <<messagePool, userSessions, serverNodes, clients, now,
                   insertOrder, rateLimiter, peerPool, phase, asked,
                   lastInbound>>

\* res.json(...) of a publish follows the await of replicateToNodes.
Respond ==
    /\ out # Idle
    /\ Len(settled) = Len(Replicated(out))
    /\ out' = Idle
    /\ settled' = <<>>
    /\ UNCHANGED <<messagePool, userSessions, serverNodes, clients, now,
                   insertOrder, rateLimiter, peerPool, phase, asked,
                   lastInbound>>

PeerBodies ==
    {b \in CompleteBodies : b.recipientContactCode = "R1" /\ ~b.hasTtl}

\* SpecPeers: broker A with peers in its node registry, and the peer that
\* its replication requests reach.
NextPeers ==
    \/ \E b \in NodeBodies : Broker(registerNode(b))
    \/ \E b \in PeerBodies : Broker(handleMessage(b))
    \/ Broker(getMessages("R1"))
    \/ \E c \in Channels : Broker(Connection(c))
    \/ \E c \in Channels : Broker(registerUser(c, "R1"))
    \/ \E c \in Channels : Broker(OnClose(c))
    \/ PeerAnswers
    \/ \E why \in {"unreachable", "timeout", "500"} : FetchFails(why)
    \/ Respond

SpecPeers == Init /\ [][NextPeers]_vars

(* ------------------------------ shutdown ------------------------------ *)
\* process.on('SIGTERM'): server.server.close(callback). The listener stops
\* accepting connections; the sockets that are open, the registry and the
\* two cron tasks are left as they are.
Sigterm ==
    /\ phase = "running"
    /\ phase' = "closing"
    /\ UNCHANGED <<messagePool, userSessions, serverNodes, clients, now, out,
                   insertOrder, rateLimiter, settled, peerPool, asked,
                   lastInbound>>

\* The callback of server.close runs once the last connection has ended:
\* process.exit(0).
Exit ==
    /\ phase = "closing"
    /\ \A c \in Channels : clients[c].state \in {"none", "closed"}
    /\ phase' = "exited"
    /\ UNCHANGED <<messagePool, userSessions, serverNodes, clients, now, out,
                   insertOrder, rateLimiter, settled, peerPool, asked,
                   lastInbound>>

\* A step that needs a connection the listener accepts.
Accepting(A) == phase = "running" /\ Broker(A)

\* A step of the process while it has not exited.
Alive(A) == phase # "exited" /\ Broker(A)

ShutdownBodies ==
    {b \in CompleteBodies : b.messageId = "m1" /\ b.hasTtl}

\* SpecShutdown: the broker, its sockets and sweeps, and SIGTERM.
NextShutdown ==
    \/ \E c \in Channels : Accepting(Connection(c))
    \/ \E b \in ShutdownBodies : Accepting(handleMessage(b))
    \/ \E c \in Channels : Alive(handleWebSocketMessage(c))
    \/ \E c \in Channels : Alive(OnClose(c))
    \/ Alive(cleanupExpiredMessages)
    \/ Alive(cleanupInactiveSessions)
    \/ phase # "exited" /\ Elapse(ReaperInstants)
    \/ Alive(Flush)
    \/ Sigterm
    \/ Exit

SpecShutdown == Init /\ [][NextShutdown]_vars

(* -------------------------------- Next -------------------------------- *)
\* Spec: the broker over a running clock, its node registry left empty.
Next ==
    \/ \E b \in PublishBodies : Broker(handleMessage(b))
    \/ \E contactCode \in Recipients : Broker(getMessages(contactCode))
    \/ \E messageId \in MessageIds : Broker(deleteMessage(messageId))
    \/ Broker(cleanupExpiredMessages)
    \/ Broker(Tick)
    \/ \E c \in Channels : Broker(Connection(c))
    \/ \E c \in Channels : Broker(TransportLost(c))
    \/ \E c \in Channels : Broker(OnClose(c))
    \/ \E c \in Channels : Broker(handleWebSocketMessage(c))
    \/ Broker(health)
    \/ Broker(Flush)

Spec == Init /\ [][Next]_vars

\* SpecCluster: the broker with its node registry, the clock standing still.
NextCluster ==
    \/ \E b \in PublishBodies : Broker(handleMessage(b))
    \/ \E contactCode \in Recipients : Broker(getMessages(contactCode))
    \/ \E messageId \in MessageIds : Broker(deleteMessage(messageId))
    \/ \E c \in Channels : Broker(Connection(c))
    \/ \E c \in Channels : Broker(TransportLost(c))
    \/ \E c \in Channels : Broker(OnClose(c))
    \/ \E c \in Channels : Broker(handleWebSocketMessage(c))
    \/ \E b \in NodeBodies : Broker(registerNode(b))
    \/ Broker(getNodes)
    \/ Broker(health)
    \/ Broker(Flush)

SpecCluster == Init /\ [][NextCluster]_vars

(* ====================================================================== *)
(*                               Properties                               *)
(* ====================================================================== *)
Accepted(o) == o.op = "publish" /\ o.status = 200

\* The positions in o.frames of new_message frames for id written to ws.
NewMessagesTo(o, ws, id) ==
    {k \in 1..Len(o.frames) :
        /\ o.frames[k].to = ws
        /\ IsFrame(o.frames[k].frame, "new_message")
        /\ o.frames[k].frame.messageId = id}

Pushed(o) ==
    \E k \in 1..Len(o.frames) :
        /\ IsFrame(o.frames[k].frame, "new_message")
        /\ o.frames[k].frame.messageId = o.req.messageId

BoundTo(sess, recipient) ==
    {k \in 1..Len(sess) : sess[k].contactCode = recipient}

\* The envelope of request body b as a pull answers it at instant t.
EnvelopeOf(b, t) ==
    [id |-> b.messageId, encryptedMessage |-> b.encryptedMessage,
     timestamp |-> t]

(* C1: every envelope accepted by publish is accounted for. An entry      *)
(* leaves the pool only in a step that is a pull for its recipient        *)
(* answering it, the expiry sweep removing it, or delete of its id; and   *)
(* an accepted publish either pushes its envelope or leaves it pooled,    *)
(* never both and never neither. No other step (a later publish, for      *)
(* one) drops an entry.                                                   *)
C1_EveryEnvelopeAccountedFor ==
    [][ /\ \A k \in 1..Len(messagePool) :
              LET m == messagePool[k]
              IN (\A j \in 1..Len(messagePool') : messagePool'[j] # m) =>
                    \/ /\ out'.op = "pull"
                       /\ out'.contactCode = m.recipientContactCode
                       /\ Answered(m) \in Range(out'.body.messages)
                    \/ /\ out'.op = "sweep"
                       /\ m.id \in Range(out'.ids)
                    \/ /\ out'.op = "delete"
                       /\ out'.messageId = m.id
        /\ Accepted(out') =>
              Pushed(out') # (\E j \in 1..Len(messagePool') :
                                 /\ messagePool'[j].id = out'.req.messageId
                                 /\ Answered(messagePool'[j]) =
                                        EnvelopeOf(out'.req, now))
      ]_vars

(* C2: a publish addressed to R writes a new_message frame for its        *)
(* envelope to every session bound to R whose channel accepts writes.     *)
C2_EverySessionOfRecipientIsWritten ==
    Accepted(out) =>
        \A k \in BoundTo(userSessions, out.req.recipientContactCode) :
            clients[userSessions[k].ws].state = "open" =>
                NewMessagesTo(out, userSessions[k].ws, out.req.messageId) # {}

(* C3: for every open session bound to R, a publish to R made after the   *)
(* bind answers delivered = true and the session is written exactly one   *)
(* new_message frame for that envelope.                                    *)
C3_BoundSessionGetsExactlyOne ==
    Accepted(out) =>
        \A k \in BoundTo(userSessions, out.req.recipientContactCode) :
            clients[userSessions[k].ws].state = "open" =>
                /\ out.body.delivered
                /\ Cardinality(NewMessagesTo(out, userSessions[k].ws,
                                             out.req.messageId)) = 1

(* C4: a publish whose identifier is already pooled leaves the pooled     *)
(* entry exactly as it was.                                                *)
C4_DuplicateKeepsExisting ==
    [][ (Accepted(out') /\ PoolHas(messagePool, out'.req.messageId)) =>
            /\ PoolHas(messagePool', out'.req.messageId)
            /\ messagePool'[PoolIndex(messagePool', out'.req.messageId)] =
                   messagePool[PoolIndex(messagePool, out'.req.messageId)]
      ]_vars

(* C5: when no session is bound to R, publish(E) addressed to R answers   *)
(* success with delivered = false and pooled = true, and the pull(R)      *)
(* that comes next answers E with its id, payload and ingress timestamp.  *)
C5_PublishThenPull ==
    [][ (/\ out'.op = "publish"
         /\ out'.req \in CompleteBodies
         /\ BoundTo(userSessions, out'.req.recipientContactCode) = {}) =>
            /\ out'.status = 200
            /\ out'.body.success
            /\ out'.body.messageId = out'.req.messageId
            /\ ~out'.body.delivered
            /\ out'.body.pooled
            /\ EnvelopeOf(out'.req, now) \in
                   Range(PullAnswer(messagePool',
                                    out'.req.recipientContactCode))
      ]_vars

C5_Witness ==
    /\ Accepted(out)
    /\ out.body.pooled
    /\ now > 0
    /\ BoundTo(userSessions, out.req.recipientContactCode) = {}
    /\ Len(PullAnswer(messagePool, out.req.recipientContactCode)) = 2

(* C6 as stated: if a write succeeds the publish answers delivered =      *)
(* true, pooled = false, the envelope is not pooled and a following pull  *)
(* for the recipient answers an empty list; if none succeeds the envelope *)
(* is pooled and the answer is pooled = true.                             *)
C6_AsStated ==
    Accepted(out) =>
        /\ Pushed(out) =>
              /\ out.body.delivered /\ ~out.body.pooled
              /\ ~PoolHas(messagePool, out.req.messageId)
              /\ PullAnswer(messagePool, out.req.recipientContactCode) = <<>>
        /\ ~Pushed(out) =>
              /\ out.body.pooled /\ ~out.body.delivered
              /\ EnvelopeOf(out.req, now) \in
                     Range(PullAnswer(messagePool,
                                      out.req.recipientContactCode))

(* C6 amended: as above, but the following pull for the recipient does    *)
(* not answer that envelope (older envelopes of the recipient may still   *)
(* be pooled and are answered).                                            *)
C6_Amended ==
    Accepted(out) =>
        /\ Pushed(out) =>
              /\ out.body.delivered /\ ~out.body.pooled
              /\ ~PoolHas(messagePool, out.req.messageId)
              /\ \A e \in Range(PullAnswer(messagePool,
                                           out.req.recipientContactCode)) :
                     e.id # out.req.messageId
        /\ ~Pushed(out) =>
              /\ out.body.pooled /\ ~out.body.delivered
              /\ EnvelopeOf(out.req, now) \in
                     Range(PullAnswer(messagePool,
                                      out.req.recipientContactCode))

C6_Witness ==
    /\ Accepted(out)
    /\ Pushed(out)
    /\ PullAnswer(messagePool, out.req.recipientContactCode) # <<>>

(* C7: of two pull(R) with no publish between them the second answers an  *)
(* empty list: a pull(R) leaves nothing a pull(R) would answer, and no    *)
(* step other than an accepted publish ends that.                          *)
C7_SecondPullEmpty ==
    [][ \A r \in Recipients :
          /\ (out'.op = "pull" /\ out'.contactCode = r) =>
                 PullAnswer(messagePool', r) = <<>>
          /\ (PullAnswer(messagePool, r) = <<>> /\ ~Accepted(out')) =>
                 PullAnswer(messagePool', r) = <<>>
      ]_vars

C7_Witness ==
    /\ out.op = "pull"
    /\ out.body.messages # <<>>
    /\ messagePool # <<>>
    /\ PullAnswer(messagePool, out.contactCode) = <<>>

C9_EachEnvelopeOnePull ==
    [][ out'.op = "pull" =>
          /\ \A k \in 1..Len(messagePool) :
                LET m == messagePool[k]
                    answers == {j \in 1..Len(out'.body.messages) :
                                   out'.body.messages[j] = Answered(m)}
                    stays == \E j \in 1..Len(messagePool') :
                                 messagePool'[j] = m
                IN IF stays THEN answers = {}
                   ELSE Cardinality(answers) = 1
          /\ \A j \in 1..Len(out'.body.messages) :
                \E k \in 1..Len(messagePool) :
                    out'.body.messages[j] = Answered(messagePool[k])
      ]_vars

C9_Witness ==
    /\ out.op = "pull"
    /\ Len(out.body.messages) = 1
    /\ Len(messagePool) = 1

(* C10: a publish missing recipient, payload or id, and a register_node   *)
(* missing node_url or public_key, is answered 400 and changes nothing:   *)
(* pool, sessions and node registry stay as they were, no frame is        *)
(* written and nothing is replicated.                                      *)
C10_BadRequestChangesNothing ==
    [][ (\/ /\ out'.op = "publish"
            /\ \/ out'.req.recipientContactCode = Missing
               \/ out'.req.encryptedMessage = Missing
               \/ out'.req.messageId = Missing
         \/ /\ out'.op = "register_node"
            /\ \/ out'.req.nodeUrl = Missing
               \/ out'.req.publicKey = Missing) =>
            /\ out'.status = 400
            /\ DOMAIN out'.body = {"error"}
            /\ out'.frames = <<>>
            /\ out'.op = "publish" => out'.replicated = <<>>
            /\ messagePool' = messagePool
            /\ userSessions' = userSessions
            /\ serverNodes' = serverNodes
            /\ clients' = clients
      ]_vars

C10_Witness ==
    /\ out.op = "publish"
    /\ out.status = 400
    /\ out.req.recipientContactCode = "R1"
    /\ out.req.messageId = Missing
    /\ serverNodes # <<>>
    /\ \E k \in BoundTo(userSessions, "R1") :
           clients[userSessions[k].ws].state = "open"

(* C13: delete(i) of a pooled envelope removes exactly that envelope and   *)
(* answers success = true; delete(i) of an identifier that is not pooled  *)
(* answers success = false and leaves the pool as it was; and once i is   *)
(* not pooled, only an accepted publish of i makes it pooled again, so a  *)
(* second delete(i) with no publish of i in between answers false.        *)
C13_DeleteIdempotent ==
    [][ /\ out'.op = "delete" =>
              LET i == out'.messageId
                  pooled == \E k \in 1..Len(messagePool) :
                                messagePool[k].id = i
              IN /\ out'.body.success = pooled
                 /\ messagePool' =
                        SelectSeq(messagePool, LAMBDA m : m.id # i)
                 /\ Len(messagePool') =
                        Len(messagePool) - (IF pooled THEN 1 ELSE 0)
        /\ \A i \in MessageIds :
              (/\ \A k \in 1..Len(messagePool) : messagePool[k].id # i
               /\ ~(Accepted(out') /\ out'.req.messageId = i)) =>
                  \A k \in 1..Len(messagePool') : messagePool'[k].id # i
      ]_vars

C13_Witness ==
    /\ out.op = "delete"
    /\ out.body.success
    /\ out.messageId = "m2"
    /\ Len(messagePool) = 1
    /\ messagePool[1].id = "m1"

(* C15: an envelope sweep removes every pooled envelope whose created_at  *)
(* + ttl the clock has passed, so that a pull for its recipient made      *)
(* right after the sweep does not answer it.                              *)
C15_SweepRemovesExpired ==
    [][ out'.op = "sweep" =>
          \A k \in 1..Len(messagePool) :
              LET m == messagePool[k]
              IN now > m.timestamp + m.ttl =>
                    /\ \A j \in 1..Len(messagePool') :
                           messagePool'[j].id # m.id
                    /\ \A e \in Range(PullAnswer(messagePool',
                                                  m.recipientContactCode)) :
                           e.id # m.id
      ]_vars

C15_Witness ==
    /\ out.op = "sweep"
    /\ out.cleaned = 1
    /\ Len(messagePool) = 1
    /\ messagePool[1].recipientContactCode = "R1"
    /\ now = MaxTime

(* C20: a sweep run at instant t removes exactly the envelopes with       *)
(* created_at + ttl <= t, the one whose expiry instant equals t included, *)
(* leaves every other envelope as it was, and reports the number it       *)
(* removed.                                                               *)
C20_SweepRemovesUpToInstant ==
    [][ out'.op = "sweep" =>
          /\ messagePool' =
                 SelectSeq(messagePool,
                           LAMBDA m : ~(m.timestamp + m.ttl <= now))
          /\ out'.cleaned = Len(messagePool) - Len(messagePool')
      ]_vars

(* C14: register_node is idempotent: after an accepted registration the   *)
(* registry holds one entry for that peer (same node_url and public_key), *)
(* and registering a peer it already holds leaves its size, and with it   *)
(* the registeredNodes count and the health node count, unchanged.        *)
C14_RegisterNodeIdempotent ==
    [][ (out'.op = "register_node" /\ out'.status = 200) =>
          LET same(nodes) ==
                  {k \in 1..Len(nodes) :
                      /\ nodes[k].nodeUrl = out'.req.nodeUrl
                      /\ nodes[k].publicKey = out'.req.publicKey}
          IN /\ Cardinality(same(serverNodes')) = 1
             /\ same(serverNodes) # {} =>
                    /\ Len(serverNodes') = Len(serverNodes)
                    /\ out'.body.registeredNodes = Len(serverNodes)
      ]_vars

(* C11: from one source, the first 100 requests of a 60-second window     *)
(* (the window its first request opens) are admitted, whatever they ask,  *)
(* and the 101st and every further one in that window is answered 429     *)
(* 'Too many requests'; the first request after the window opens the next *)
(* window and is admitted again.                                          *)
C11_HundredPerWindow ==
    [][ \A s \in Sources :
          asked'[s] # asked[s] =>
              /\ asked'[s].count > Points <=>
                     (/\ out'.op = "rate_limited"
                      /\ out'.src = s
                      /\ out'.status = 429
                      /\ out'.body = [error |-> "Too many requests"])
              /\ (asked[s].since >= 0 /\ now >= asked[s].since + WindowMs) =>
                     out'.op # "rate_limited"
      ]_vars

C11_Witness ==
    /\ out.op = "rate_limited"
    /\ out.src = "a1"
    /\ now = WindowMs - 1
    /\ asked["a1"] = [since |-> 0, count |-> Points + 1]
    /\ asked["a2"].count = 1

(* C12: a request the limiter rejects does no further work: the answer is *)
(* the 429 alone, no handler has run, and message pool, session registry, *)
(* node registry and sockets are exactly as before the request.           *)
C12_RejectedDoesNothing ==
    [][ \A s \in Sources :
          (asked'[s] # asked[s] /\ asked'[s].count > Points) =>
              /\ out' = TooManyRequests(s)
              /\ messagePool' = messagePool
              /\ userSessions' = userSessions
              /\ serverNodes' = serverNodes
              /\ clients' = clients
              /\ insertOrder' = insertOrder
      ]_vars

C12_Witness ==
    /\ out.op = "rate_limited"
    /\ messagePool # <<>>
    /\ serverNodes # <<>>
    /\ asked["a1"].since = WindowMs - 1

(* C16: a bound session whose socket has had no inbound frame for more    *)
(* than 5 minutes is, after a session sweep, no longer in the registry    *)
(* and its socket no longer open; a session leaves the registry for good  *)
(* unless its socket, still open, registers again; and a publish to a     *)
(* recipient no session is bound to answers pooled = true and keeps the   *)
(* envelope in the pool.                                                  *)
C16_IdleSessionSwept ==
    [][ /\ out'.op = "session_sweep" =>
              \A k \in 1..Len(userSessions) :
                  LET e == userSessions[k]
                  IN now - lastInbound[e.ws] > SessionTimeout =>
                        /\ \A j \in 1..Len(userSessions') :
                               userSessions'[j].sessionId # e.sessionId
                        /\ clients'[e.ws].state # "open"
                        /\ e.ws \in Range(out'.closed)
        /\ \A c \in Channels :
              (/\ clients[c].state # "open"
               /\ \A j \in 1..Len(userSessions) : userSessions[j].ws # c) =>
                  \A j \in 1..Len(userSessions') : userSessions'[j].ws # c
        /\ (Accepted(out') /\
             BoundTo(userSessions, out'.req.recipientContactCode) = {}) =>
              /\ out'.body.pooled
              /\ ~out'.body.delivered
              /\ out'.frames = <<>>
              /\ \E j \in 1..Len(messagePool') :
                     /\ messagePool'[j].id = out'.req.messageId
                     /\ messagePool'[j].recipientContactCode =
                            out'.req.recipientContactCode
      ]_vars

\* A publish to R1 is pooled although a socket that registered for R1 is
\* still closing: the sweep has taken its session out.
C16_Witness ==
    /\ Accepted(out)
    /\ out.req.recipientContactCode = "R1"
    /\ out.body.pooled
    /\ now = SessionTimeout + 1
    /\ userSessions = <<>>
    /\ \E c \in Channels :
           clients[c].state = "closing" /\ lastInbound[c] = 0

(* C17: with broker B in A's node registry and reachable, an envelope     *)
(* accepted by publish on A is in B's pool once A's replication requests  *)
(* have been answered, so that a pull for its recipient at B answers it.  *)
C17_ReplicaAtPeer ==
    (/\ Accepted(out)
     /\ out.replicated # <<>>
     /\ Len(settled) = Len(out.replicated)
     /\ \A k \in 1..Len(settled) : settled[k].reached) =>
        \E e \in Range(PullAnswer(peerPool, out.req.recipientContactCode)) :
            /\ e.id = out.req.messageId
            /\ e.encryptedMessage = out.req.encryptedMessage

(* C18: replication failures never fail the publish: whatever each peer   *)
(* does (unreachable, timeout, error answer), the outcome of a request    *)
(* changes neither the pool nor the answer, and the answer that is sent   *)
(* is the success a publish gives with no peers: pooled = not delivered,  *)
(* delivered exactly when the envelope was pushed, pooled exactly when it *)
(* is in the pool.                                                        *)
C18_PeerFailuresSwallowed ==
    [][ /\ (settled' # settled /\ settled' # <<>>) =>
              /\ messagePool' = messagePool
              /\ userSessions' = userSessions
              /\ out' = out
        /\ (out.op = "publish" /\ out.req \in CompleteBodies /\ out' = Idle) =>
              /\ out.status = 200
              /\ out.body.success
              /\ out.body.messageId = out.req.messageId
              /\ out.body.pooled = ~out.body.delivered
              /\ out.body.delivered = Pushed(out)
              /\ out.body.pooled =
                     (\E j \in 1..Len(messagePool) :
                          /\ messagePool[j].id = out.req.messageId
                          /\ messagePool[j].recipientContactCode =
                                 out.req.recipientContactCode)
      ]_vars

C18_Witness ==
    /\ Accepted(out)
    /\ out.body.delivered
    /\ Len(out.replicated) = 2
    /\ Len(settled) = 2
    /\ settled[1].status = "timeout"
    /\ settled[2].status = "404"

(* C19: after SIGTERM the broker takes no new connection or request,     *)
(* every session that was open when the signal came is closed by the      *)
(* handler, neither sweep runs any more, and with no socket left open     *)
(* nothing keeps the process from exiting: it does not wait for clients   *)
(* to disconnect.                                                         *)
C19_GracefulShutdown ==
    [][ /\ (phase = "running" /\ phase' = "closing") =>
              \A c \in Channels : clients'[c].state # "open"
        /\ (phase = "closing" /\ out' # out) =>
              out'.op \notin {"sweep", "session_sweep", "publish"}
        /\ phase = "closing" =>
              \A c \in Channels :
                  clients[c].state = "none" => clients'[c].state = "none"
        /\ phase = "exited" => phase' = "exited"
      ]_vars

(* C21: every inbound frame on a session, whatever its type, refreshes    *)
(* the session's lastSeen, so a session sweep leaves in the registry      *)
(* every session whose socket has had a frame come in less than 5         *)
(* minutes before the sweep.                                              *)
C21_InboundFrameKeepsSession ==
    [][ /\ out'.op = "ws_message" =>
              \A k \in 1..Len(userSessions') :
                  userSessions'[k].ws = out'.ws =>
                      userSessions'[k].lastSeen = now
        /\ out'.op = "session_sweep" =>
              \A k \in 1..Len(userSessions) :
                  LET e == userSessions[k]
                  IN now - lastInbound[e.ws] < SessionTimeout =>
                        \E j \in 1..Len(userSessions') :
                            userSessions'[j].sessionId = e.sessionId
      ]_vars

(* C22: when a write to a session raises during a push, a forward or a    *)
(* broadcast, the session is removed from the registry and its channel is *)
(* closed, no frame counts as written to it, and the operation goes on    *)
(* with the other candidates: a publish is delivered exactly when some    *)
(* session bound to the recipient accepts the write, and a publish that   *)
(* is not delivered leaves no session bound to the recipient.             *)
C22_FailedWriteClosesSession ==
    [][ (\/ Accepted(out')
         \/ /\ out'.op = "ws_message"
            /\ out'.type \in {"real_time_message", "status_update"}) =>
            /\ \A k \in 1..Len(userSessions) :
                   LET e == userSessions[k]
                   IN (\A j \in 1..Len(userSessions') :
                           userSessions'[j].sessionId # e.sessionId) =>
                         /\ WsSendThrows(e.ws)
                         /\ clients'[e.ws].state \in {"closing", "closed"}
                         /\ \A f \in Range(out'.frames) : f.to # e.ws
            /\ Accepted(out') =>
                   /\ out'.body.delivered =
                          (\E k \in BoundTo(userSessions,
                                            out'.req.recipientContactCode) :
                               ~WsSendThrows(userSessions[k].ws))
                   /\ ~out'.body.delivered =>
                          BoundTo(userSessions',
                                  out'.req.recipientContactCode) = {}
      ]_vars

\* A frame came in that is unparseable or of unknown type, or a
\* register_user that was not acknowledged.
Malformed(o) ==
    /\ o.op = "ws_message"
    /\ \/ o.type = "other"
       \/ /\ o.type = "register_user"
          /\ \A f \in Range(o.frames) :
                 ~IsFrame(f.frame, "registration_success")

(* C23: an inbound frame that cannot be parsed, has an unknown type, or   *)
(* is a register_user without a valid contact code is answered with one   *)
(* frame of type 'error', carrying the error string, on the socket it     *)
(* came in on; the socket stays open, and registry, bindings and pool are *)
(* as before.                                                             *)
C23_MalformedFrameAnswered ==
    [][ Malformed(out') =>
            /\ Len(out'.frames) = 1
            /\ out'.frames[1].to = out'.ws
            /\ IsFrame(out'.frames[1].frame, "error")
            /\ "error" \in DOMAIN out'.frames[1].frame
            /\ clients' = clients
            /\ clients'[out'.ws].state = "open"
            /\ userSessions' = userSessions
            /\ messagePool' = messagePool
      ]_vars

\* The replication requests of answer o that go to the peer at url.
RequestsTo(o, url) ==
    {k \in 1..Len(Replicated(o)) : Replicated(o)[k].url = url}

(* C24: one publish causes at most one replication request per registered *)
(* peer, and what a peer receives on its replication endpoint is pooled   *)
(* there and goes no further: once a request has been answered by the     *)
(* peer the envelope is in the peer's pool, and the only requests of the  *)
(* publish are those of the broker that accepted it.                      *)
C24_ReplicateInPoolsOnly ==
    Accepted(out) =>
        /\ \A u \in NodeUrls : Cardinality(RequestsTo(out, u)) <= 1
        /\ Len(settled) <= Len(out.replicated)
        /\ \A k \in 1..Len(settled) :
               settled[k].reached =>
                   \E j \in 1..Len(peerPool) :
                       peerPool[j].id = out.req.messageId

(* C25: the pool size, which health reports as messagePoolSize, is the    *)
(* number of envelopes accepted by publish minus the number removed by    *)
(* pull, by push, by delete and by the expiry sweep. The pool starts      *)
(* empty, so this is: every step changes the size by one for an accepted  *)
(* publish, less one if it was pushed, less the envelopes a pull answers, *)
(* less one for a delete that succeeds, less those a sweep cleans.        *)
C25_PoolSizeAccounting ==
    [][ /\ Len(messagePool') - Len(messagePool) =
               (IF Accepted(out') THEN 1 ELSE 0)
               - (IF Accepted(out') /\ Pushed(out') THEN 1 ELSE 0)
               - (IF out'.op = "pull" THEN Len(out'.body.messages) ELSE 0)
               - (IF out'.op = "delete" /\ out'.body.success THEN 1 ELSE 0)
               - (IF out'.op = "sweep" THEN out'.cleaned ELSE 0)
        /\ out'.op = "health" =>
               out'.body.messagePoolSize = Len(messagePool')
      ]_vars

(* C26: binding does not drain the pool. A register_user step leaves the  *)
(* pool as it is and writes one frame, to the registering socket: the     *)
(* registration_success when it binds; what a pull would answer for any   *)
(* recipient is the same before and after; and the only new_message       *)
(* frames ever written are those of the envelope a publish has just       *)
(* accepted, so an envelope that was pooled reaches its recipient through *)
(* a pull alone.                                                          *)
C26_BindDoesNotDrain ==
    [][ /\ (out'.op = "ws_message" /\ out'.type = "register_user") =>
              /\ messagePool' = messagePool
              /\ Len(out'.frames) = 1
              /\ out'.frames[1].to = out'.ws
              /\ ~Malformed(out') =>
                     out'.frames[1].frame =
                         [type |-> "registration_success",
                          sessionId |-> clients[out'.ws].sessionId]
              /\ \A r \in Recipients :
                     PullAnswer(messagePool', r) = PullAnswer(messagePool, r)
        /\ \A f \in Range(out'.frames) :
              IsFrame(f.frame, "new_message") =>
                  /\ Accepted(out')
                  /\ f.frame = NewMessageFrame(MessageOf(out'.req))
      ]_vars

C26_Witness ==
    /\ out.op = "ws_message"
    /\ out.type = "register_user"
    /\ ~Malformed(out)
    /\ \E k \in 1..Len(userSessions) :
           /\ userSessions[k].ws = out.ws
           /\ Len(PullAnswer(messagePool, userSessions[k].contactCode)) = 2

\* The positions in o.frames of the frames written to socket c.
FramesTo(o, c) == {k \in 1..Len(o.frames) : o.frames[k].to = c}

(* C27: a status_update that comes in on any socket is written, as it     *)
(* came, once to every socket that is open, registered or not (the        *)
(* sender's included), and to no other; pool, registry and sockets are as *)
(* before.                                                                *)
C27_StatusToEveryOpenChannel ==
    [][ (out'.op = "ws_message" /\ out'.type = "status_update") =>
            /\ \A c \in Channels :
                   Cardinality(FramesTo(out', c)) =
                       IF clients[c].state = "open" THEN 1 ELSE 0
            /\ \A f \in Range(out'.frames) :
                   f.frame = [type |-> "status_update", status |-> "away"]
            /\ messagePool' = messagePool
            /\ userSessions' = userSessions
            /\ clients' = clients
      ]_vars

C27_Witness ==
    /\ out.op = "ws_message"
    /\ out.type = "status_update"
    /\ Len(out.frames) = 2
    /\ Len(userSessions) = 1
    /\ userSessions[1].ws # out.ws
    /\ messagePool # <<>>

(* C28: a real_time_message is written, as it came, once to every session *)
(* bound to its recipient code whose socket accepts the write, and to no  *)
(* other socket; it never touches the pool: nothing is inserted, nothing  *)
(* removed, and with no session bound to the recipient nothing is written *)
(* and no later pull answers it.                                          *)
C28_RealTimeNeverPooled ==
    [][ (out'.op = "ws_message" /\ out'.type = "real_time_message") =>
          LET r == out'.req.recipientContactCode
              live == {k \in BoundTo(userSessions, r) :
                          ~WsSendThrows(userSessions[k].ws)}
          IN /\ \A k \in live :
                    \E j \in FramesTo(out', userSessions[k].ws) :
                        out'.frames[j].frame = out'.req
             /\ Len(out'.frames) = Cardinality(live)
             /\ \A f \in Range(out'.frames) :
                    \E k \in live : userSessions[k].ws = f.to
             /\ messagePool' = messagePool
             /\ \A q \in Recipients :
                    PullAnswer(messagePool', q) = PullAnswer(messagePool, q)
      ]_vars

C28_Witness ==
    /\ out.op = "ws_message"
    /\ out.type = "real_time_message"
    /\ Len(out.frames) = 2
    /\ Len(PullAnswer(messagePool, out.req.recipientContactCode)) = 1

(* C29: once a socket has closed its session is not in the registry. In   *)
(* every state each registry entry is that of a socket whose 'close' has  *)
(* not come (open, or its transport lost and the close pending); a socket *)
(* that has closed stays closed and no entry with its socket or its       *)
(* session id is in the registry again; and a publish to a recipient      *)
(* whose sessions have all closed answers pooled = true, writes no frame  *)
(* and keeps the envelope in the pool.                                    *)
C29_ClosedSessionNotRegistered ==
    [][ /\ \A k \in 1..Len(userSessions') :
              /\ clients'[userSessions'[k].ws].state \in {"open", "broken"}
              /\ clients'[userSessions'[k].ws].sessionId =
                     userSessions'[k].sessionId
        /\ \A c \in Channels :
              clients[c].state = "closed" =>
                  /\ clients'[c] = clients[c]
                  /\ \A k \in 1..Len(userSessions') :
                         /\ userSessions'[k].ws # c
                         /\ userSessions'[k].sessionId # clients[c].sessionId
        /\ (/\ Accepted(out')
            /\ \A k \in BoundTo(userSessions,
                                out'.req.recipientContactCode) :
                   clients[userSessions[k].ws].state = "closed") =>
              /\ out'.body.pooled
              /\ out'.frames = <<>>
              /\ PoolHas(messagePool', out'.req.messageId)
      ]_vars

C29_Witness ==
    /\ Accepted(out)
    /\ out.req.recipientContactCode = "R1"
    /\ out.body.pooled
    /\ clients[1].state = "closed"
    /\ clients[2].state = "open"
    /\ Len(userSessions) = 1
    /\ userSessions[1].contactCode = "R2"

(* C30: opening a socket records at once a new session with a fresh id    *)
(* and no recipient in the registry, before any register_user, so the     *)
(* activeSessions that health reports counts every open socket, those     *)
(* that have not registered included.                                     *)
C30_OpenRecordsUnboundSession ==
    [][ /\ \A c \in Channels :
              (clients[c].state = "none" /\ clients'[c].state = "open") =>
                  /\ Len(userSessions') = Len(userSessions) + 1
                  /\ \A k \in 1..Len(userSessions) :
                         userSessions[k].sessionId # clients'[c].sessionId
                  /\ \E k \in 1..Len(userSessions') :
                         /\ userSessions'[k].sessionId = clients'[c].sessionId
                         /\ userSessions'[k].ws = c
                         /\ userSessions'[k].contactCode = Missing
        /\ out'.op = "health" =>
              \A c \in Channels :
                  clients[c].state = "open" =>
                      \E k \in 1..Len(userSessions) : userSessions[k].ws = c
        /\ out'.op = "health" =>
              out'.body.activeSessions >=
                  Cardinality({c \in Channels : clients[c].state = "open"})
      ]_vars

(* C31: every envelope a publish accepts is sent to the replicate         *)
(* endpoint of every node the registry holds at that moment, one request  *)
(* per registry entry, carrying the envelope, whether the envelope was    *)
(* pushed to a session or left in the pool.                               *)
C31_AcceptedIsReplicated ==
    [][ Accepted(out') =>
            /\ Len(out'.replicated) = Len(serverNodes)
            /\ \A k \in 1..Len(serverNodes) :
                   out'.replicated[k] =
                       [url |-> serverNodes[k].nodeUrl,
                        path |-> "/api/replicate",
                        body |-> MessageOf(out'.req)]
      ]_vars

C31_Witness ==
    /\ Accepted(out)
    /\ out.body.delivered
    /\ ~PoolHas(messagePool, out.req.messageId)
    /\ Len(serverNodes) = MaxNodes
    /\ Len(out.replicated) = MaxNodes

\* The registry entries of socket c.
EntriesOf(sess, c) == {k \in 1..Len(sess) : sess[k].ws = c}

C33_OnlyPublishedEnvelopePushed ==
    [][ /\ \A f \in Range(out'.frames) :
              IsFrame(f.frame, "new_message") =>
                  /\ Accepted(out')
                  /\ f.frame = NewMessageFrame(MessageOf(out'.req))
        /\ out'.op \in {"sweep", "session_sweep"} => out'.frames = <<>>
        /\ Accepted(out') =>
              \A k \in 1..Len(messagePool) :
                  \E j \in 1..Len(messagePool') :
                      messagePool'[j] = messagePool[k]
        /\ \A k \in 1..Len(messagePool) :
              (\A j \in 1..Len(messagePool') :
                   messagePool'[j] # messagePool[k]) =>
                  \/ /\ out'.op = "pull"
                     /\ out'.contactCode = messagePool[k].recipientContactCode
                  \/ /\ out'.op = "delete"
                     /\ out'.messageId = messagePool[k].id
                  \/ out'.op = "sweep"
      ]_vars

(* C34: pull(R) answers and removes only envelopes whose recipient code   *)
(* is R: every envelope answered was pooled for R, every envelope for     *)
(* another recipient is in the pool afterwards as it was and in the same  *)
(* order, and session registry, node registry and sockets are unchanged.  *)
C34_PullTakesOnlyItsRecipient ==
    [][ out'.op = "pull" =>
          LET r == out'.contactCode
              others(pool) ==
                  SelectSeq(pool, LAMBDA m : m.recipientContactCode # r)
          IN /\ \A j \in 1..Len(out'.body.messages) :
                    \E k \in 1..Len(messagePool) :
                        /\ messagePool[k].recipientContactCode = r
                        /\ Answered(messagePool[k]) = out'.body.messages[j]
             /\ messagePool' = others(messagePool)
             /\ others(messagePool') = others(messagePool)
             /\ userSessions' = userSessions
             /\ serverNodes' = serverNodes
             /\ clients' = clients
      ]_vars

C34_Witness ==
    /\ out.op = "pull"
    /\ out.contactCode = "R1"
    /\ Len(out.body.messages) = 1
    /\ Len(messagePool) = 1
    /\ messagePool[1].recipientContactCode = "R2"
    /\ userSessions # <<>>
    /\ serverNodes # <<>>

(* C35: a socket is written a new_message or a real_time_message only if, *)
(* when the publish or forward runs, the registry holds a session of that *)
(* socket bound to exactly the recipient code of the envelope or frame; a *)
(* socket that has not registered, or is bound to another code, is never  *)
(* written one.                                                           *)
C35_OnlyBoundSessionsReceive ==
    [][ \A f \in Range(out'.frames) :
          /\ IsFrame(f.frame, "new_message") =>
                /\ Accepted(out')
                /\ \E k \in BoundTo(userSessions,
                                    out'.req.recipientContactCode) :
                       userSessions[k].ws = f.to
          /\ IsFrame(f.frame, "real_time_message") =>
                /\ out'.op = "ws_message"
                /\ out'.type = "real_time_message"
                /\ \E k \in BoundTo(userSessions,
                                    f.frame.recipientContactCode) :
                       userSessions[k].ws = f.to
      ]_vars

C35_Witness ==
    /\ Accepted(out)
    /\ out.req.recipientContactCode = "R1"
    /\ Len(out.frames) = 1
    /\ Len(userSessions) = 2
    /\ userSessions[1].contactCode = "R2"
    /\ clients[userSessions[1].ws].state = "open"
    /\ out.frames[1].to = userSessions[2].ws

(* C36: a session is bound to at most one recipient code at a time. The   *)
(* registry never holds two entries for one socket; a well-formed         *)
(* register_user on a socket that has an entry replaces it in place and   *)
(* is acknowledged with registration_success; and the binding a session   *)
(* has when a publish runs decides the push: a session whose socket       *)
(* accepts writes is written the new_message exactly when it is bound to  *)
(* the publish's recipient, so after a rebind publishes to the earlier    *)
(* code no longer reach it and publishes to the new code do.              *)
C36_RebindReplacesBinding ==
    [][ /\ \A c \in Channels :
              Cardinality(EntriesOf(userSessions', c)) <= 1
        /\ (/\ out'.op = "ws_message"
            /\ out'.type = "register_user"
            /\ ~Malformed(out')) =>
              /\ Cardinality(EntriesOf(userSessions', out'.ws)) = 1
              /\ EntriesOf(userSessions, out'.ws) # {} =>
                     /\ Len(userSessions') = Len(userSessions)
                     /\ EntriesOf(userSessions', out'.ws) =
                            EntriesOf(userSessions, out'.ws)
              /\ out'.frames =
                     <<[to |-> out'.ws,
                        frame |-> [type |-> "registration_success",
                                   sessionId |-> clients[out'.ws].sessionId]]>>
        /\ Accepted(out') =>
              \A k \in 1..Len(userSessions) :
                  clients[userSessions[k].ws].state = "open" =>
                      (NewMessagesTo(out', userSessions[k].ws,
                                     out'.req.messageId) # {})
                      = (userSessions[k].contactCode =
                             out'.req.recipientContactCode)
      ]_vars

(* C37: in every successful publish answer pooled is the negation of      *)
(* delivered, and when the delivery attempt of that publish has finished  *)
(* the envelope is in the pool exactly when delivered is false: pooled,   *)
(* the pool holds under the publish's id the envelope just built;         *)
(* delivered, the pool holds nothing under that id.                       *)
C37_PooledIsNotDelivered ==
    [][ Accepted(out') =>
            /\ out'.body.success
            /\ out'.body.pooled = ~out'.body.delivered
            /\ PoolHas(messagePool', out'.req.messageId) =
                   ~out'.body.delivered
            /\ out'.body.pooled =>
                   messagePool'[PoolIndex(messagePool',
                                          out'.req.messageId)] =
                       MessageOf(out'.req)
      ]_vars

C37_Witness ==
    /\ Accepted(out)
    /\ out.body.delivered
    /\ ~out.body.pooled
    /\ Len(messagePool) = 1
    /\ messagePool[1].recipientContactCode = out.req.recipientContactCode
    /\ \E c \in Channels : clients[c].state = "broken"

(* C38: the limiter's records are independent per source address. A       *)
(* request from one source changes the record of that source alone, and   *)
(* whether it is rejected depends on that source's own requests only: it  *)
(* is rejected only if it is itself beyond the 100th of its own window,   *)
(* however many points any other source has used up.                      *)
C38_BucketsIndependent ==
    [][ \A s \in Sources :
          asked'[s] # asked[s] =>
              /\ \A t \in Sources \ {s} :
                     /\ rateLimiter'[t] = rateLimiter[t]
                     /\ asked'[t] = asked[t]
              /\ rateLimiter'[s] = Consume(rateLimiter[s], now)
              /\ out'.op = "rate_limited" =>
                     /\ out'.src = s
                     /\ asked'[s].count > Points
              /\ asked'[s].count <= Points => out'.status # 429
      ]_vars

C38_Witness ==
    /\ now = 0
    /\ asked["a1"].count = Points + 1
    /\ rateLimiter["a1"].consumedPoints = Points + 1
    /\ asked["a2"].count = 1
    /\ rateLimiter["a2"].consumedPoints = 1
    /\ out.op = "publish"
    /\ out.status = 200

====
